---- MODULE Spec2Model ----
(***************************************************************************)
(* Job registry, job queue and background worker of web_app.py, with the   *)
(* two pipeline stages seen through what the worker observes of them: the  *)
(* way subprocess.run ends and the files left in the output folder.        *)
(*                                                                         *)
(* Spec, FairSpec        upload, shutdown_worker and the worker thread     *)
(* HandlerSpec           upload, the read routes and the worker thread     *)
(* GuardSpec, GuardFairSpec   processes sharing the pidfile                *)
(* RegistrySpec          threads of one process going through jobs_lock    *)
(* PipelineSpec          the pivot of one run of process_data_fintech.py   *)
(* ShutdownSpec          GuardSpec with shutdown_worker                    *)
(* StageSpec             preprocess_upload.py and main() on one raw file   *)
(* FsSpec                runs in write_csv_secure on one output path       *)
(***************************************************************************)
EXTENDS Integers, Sequences, FiniteSets, TLC

\* ---------------------------------------------------------------- bounds
MaxJobs == 2
MaxShutdown == 1
MaxProcs == 2
MaxGuardCalls == 2
MaxPending == 1
MaxThreads == 2
MaxRegCalls == 3
MaxLists == 1
MaxListLen == 2
MaxRows == 2
MaxRuns == 2
MaxChunks == 2

\* ------------------------------------------------------------- constants
ExcerptLen == 20000
Stage1Timeout == 3600
Stage2Timeout == 300
LongLen == ExcerptLen + 1

JobIds == 1..MaxJobs
None == << >>
NoText == -1
MyPid == 1
NoPid == 0

ALLOWED_EXT == {".csv", ".xlsx", ".xls"}
FileNames == {"data.csv", "data.CSV", "data.txt"}
RetCodes == {0, 1}
\* captured (stdout, stderr) of a stage: None, short, or longer than the excerpt
StageTexts == {[stdout |-> NoText, stderr |-> LongLen],
               [stdout |-> LongLen, stderr |-> 12]}
DatasetTypeLists == {<<"ct_analysis", "raw_data">>}

TooManyMsg == "task_done() called too many times"
Terminal == {"done", "failed", "error"}

VARIABLES
    jobs,              \* the registry: job id -> dict of fields
    processing_queue,  \* items of the Queue, oldest first
    unfinished_tasks,  \* Queue.unfinished_tasks
    pc,                \* position of the worker thread
    job,               \* the item the worker dequeued last
    original_filename, \* worker local
    exc,               \* message of the exception being handled
    uploading,         \* queue items of requests between safe_set_job and put
    outputs,           \* file names present in OUTPUT_FOLDER
    pidfile,           \* pid recorded in fintech_bg.pid, NoPid when absent
    shutdowns,         \* calls of shutdown_worker so far
    calls,             \* subprocess.run calls made by the worker, in order
    enqueued,          \* every item ever put on the queue, in order
    \* processes sharing the pidfile, each importing web_app
    gpc,               \* pid -> position in start_background_worker_once_with_pidfile
    existing_pid,      \* pid -> the guard's local existing_pid, 0 for None
    ret,               \* pid -> what the guard returned last
    threads,           \* pid -> worker threads started in that process
    gcalls,            \* pid -> calls of the guard so far
    hist,              \* pid -> what the guard's current call saw and did
    pending,           \* pid -> jobs on that process's queue, jobs claimed there,
                       \* and None sentinels put on it
    \* request handlers
    response,          \* HTTP status of the last read request, 0 before any
    \* threads of one process using the registry through jobs_lock
    jobs_lock,         \* the thread holding jobs_lock, 0 when free
    tpc,               \* thread -> "idle", or the with-block it is inside
    targ,              \* thread -> arguments of the registry call in progress
    heap,              \* list objects: address -> contents
    snap,              \* thread -> the dict safe_get_job returned to it last
    jorder,            \* insertion order of the keys of jobs
    listing,           \* thread -> jobs_list built by index()
    regcalls,          \* registry calls entered so far
    \* one run of process_data_fintech.py
    raw,               \* the normalized raw table, a sequence of rows
    ct_cols,           \* template columns of station CT, NoTemplate for None
    tus_cols,          \* template columns of station TUS
    agg,               \* --agg
    ppc,               \* position in main()
    ct_out,            \* the frame pivot_station returned for CT
    tus_out,           \* the frame pivot_station returned for TUS
    csv,               \* path -> the frame written there
    \* an uploaded file going through preprocess_upload.py and stage 1
    argv,              \* the paths given as --raw, --ct_template, --tus_template
    rawfile,           \* the table in the file that --raw names
    validated,         \* the frame normalize returned
    disk,              \* artifact -> the file of that name in out_dir
    mpc,               \* position: upload(), then main()
    exit_code,         \* exit code of process_data_fintech.py, -1 while it runs
    \* pipeline runs writing one wide-form output path, and a reader of it
    dir,               \* directory entry: path -> inode, 0 when absent
    inodes,            \* inode -> the chunks of the file
    wpc,               \* run -> position in write_csv_secure
    wfd,               \* run -> the inode its open file handle refers to
    woff,              \* run -> offset of its file handle, in chunks
    seen               \* what the reader read last from the final path

guardVars == <<gpc, existing_pid, ret, threads, gcalls, hist, pending>>
regVars == <<jobs_lock, tpc, targ, heap, snap, jorder, listing, regcalls>>
pivotVars == <<raw, ct_cols, tus_cols, agg, ppc, ct_out, tus_out, csv>>
stageVars == <<argv, rawfile, validated, disk, mpc, exit_code>>
fsVars == <<dir, inodes, wpc, wfd, woff, seen>>
runVars == <<stageVars, fsVars>>
auxVars == <<guardVars, regVars, pivotVars, runVars>>
workerVars == <<jobs, processing_queue, unfinished_tasks, pc, job,
                original_filename, exc, uploading, outputs, shutdowns, calls,
                enqueued, response>>
nonGuardVars == <<workerVars, regVars, pivotVars, runVars>>
nonPivotVars == <<workerVars, pidfile, guardVars, regVars, runVars>>
nonStageVars == <<workerVars, pidfile, guardVars, regVars, pivotVars, fsVars>>
nonFsVars == <<workerVars, pidfile, guardVars, regVars, pivotVars, stageVars>>
nonRegVars == <<processing_queue, unfinished_tasks, pc, job, original_filename,
                exc, uploading, outputs, pidfile, shutdowns, calls, enqueued,
                response, guardVars, pivotVars, runVars>>

vars == <<jobs, processing_queue, unfinished_tasks, pc, job, original_filename,
          exc, uploading, outputs, pidfile, shutdowns, calls, enqueued,
          response, auxVars>>

\* ------------------------------------------------------------ strings
\* Path(name).suffix.lower() and Path(name).stem on the names of FileNames
Suffix(name) ==
    CASE name = "data.csv" -> ".csv"
      [] name = "data.CSV" -> ".csv"
      [] name = "data.txt" -> ".txt"

Stem(name) == "data"

allowed_file(name) == Suffix(name) \in ALLOWED_EXT

\* a text is modelled by its length; s[:n] keeps at most n characters
Slice(len, n) == IF len > n THEN n ELSE len
OrEmpty(t) == IF t = NoText THEN 0 ELSE t
Excerpt_unbounded(t) == OrEmpty(t)
Excerpt(t) == Slice(OrEmpty(t), ExcerptLen)

\* ------------------------------------------------------------ registry
DictUpdate_replace(old, kwargs) == kwargs
DictUpdate(old, kwargs) == kwargs @@ old

SetJob(map, job_id, kwargs) ==
    [k \in (DOMAIN map) \cup {job_id} |->
        IF k = job_id
        THEN IF k \in DOMAIN map THEN DictUpdate(map[k], kwargs) ELSE kwargs
        ELSE map[k]]

safe_set_job(job_id, kwargs) == jobs' = SetJob(jobs, job_id, kwargs)

safe_get_job(job_id) == IF job_id \in DOMAIN jobs THEN jobs[job_id] ELSE << >>

DictGet(d, key, default) == IF key \in DOMAIN d THEN d[key] ELSE default

StatusOf(map, j) == IF j \in DOMAIN map THEN DictGet(map[j], "status", "unknown") ELSE "absent"
Status(j) == StatusOf(jobs, j)

\* ------------------------------------------------------------ queue
QueuePut(item) ==
    /\ processing_queue' = Append(processing_queue, item)
    /\ unfinished_tasks' = unfinished_tasks + 1
    /\ enqueued' = Append(enqueued, item)

\* Queue.get takes the item at the head (collections.deque.popleft)
QueueGetIndex_lifo(q) == Len(q)
QueueGetIndex(q) == 1
QueueGetItem(q) == q[QueueGetIndex(q)]
QueueGetRest(q) ==
    [i \in 1..(Len(q) - 1) |-> IF i < QueueGetIndex(q) THEN q[i] ELSE q[i + 1]]

TaskDoneRaises == unfinished_tasks - 1 < 0

\* ------------------------------------------------------------ files
File(stem, job_id, kind) == <<stem, job_id, kind>>
DefaultCT == File("", 0, "CT_Analysis_Output.csv")
DefaultTUS == File("", 0, "TUS_Analysis_Output.csv")
Dashboard == File("", 0, "dashboard.html")
AuditLog == File("", 0, "audit_lineage.csv")
ct_output(stem, job_id) == File(stem, job_id, "CT_Analysis_Output.csv")
tus_output(stem, job_id) == File(stem, job_id, "TUS_Analysis_Output.csv")

InitOutputs == {{}, {DefaultCT, DefaultTUS}}

\* ------------------------------------------------------------ processes
\* pids of the processes that import web_app; ForeignPid is a live process of
\* another user, DeadPid a pid no process has
Procs == 1..MaxProcs
ForeignPid == MaxProcs + 1
DeadPid == MaxProcs + 2
\* pidfile texts that are no pid: empty, and not a number
EmptyText == -1
JunkText == -2
InitPidfiles == {NoPid, DeadPid, ForeignPid, EmptyText, JunkText}

NoHist == [sawLive |-> FALSE, sawStale |-> FALSE, unlinked |-> FALSE,
           wrote |-> FALSE, werr |-> "none", started |-> 0]

GuardIdle ==
    /\ gpc = [p \in Procs |-> "off"]
    /\ existing_pid = [p \in Procs |-> 0]
    /\ ret = [p \in Procs |-> "none"]
    /\ threads = [p \in Procs |-> 0]
    /\ gcalls = [p \in Procs |-> 0]
    /\ hist = [p \in Procs |-> NoHist]
    /\ pending = [p \in Procs |-> [queued |-> 0, claimed |-> 0, sentinels |-> 0]]

\* ------------------------------------------------------------ threads
Threads == 1..MaxThreads
NoResponse == 0
NoArgs == [job_id |-> 0, kwargs |-> << >>]
NoSnap == [job_id |-> 0, info |-> << >>]

RegistryIdle ==
    /\ jobs_lock = 0
    /\ tpc = [t \in Threads |-> "idle"]
    /\ targ = [t \in Threads |-> NoArgs]
    /\ heap = << >>
    /\ snap = [t \in Threads |-> NoSnap]
    /\ jorder = << >>
    /\ listing = [t \in Threads |-> << >>]
    /\ regcalls = 0

WorkerIdle ==
    /\ jobs = << >>
    /\ processing_queue = << >>
    /\ unfinished_tasks = 0
    /\ pc = "get"
    /\ job = None
    /\ original_filename = "unknown"
    /\ exc = ""
    /\ uploading = {}
    /\ outputs = {}
    /\ shutdowns = 0
    /\ calls = << >>
    /\ enqueued = << >>
    /\ response = NoResponse

\* ------------------------------------------------------------ frames
\* a DataFrame: its column labels in order, and its rows (column -> value)
Frame(columns, rows) == [columns |-> columns, rows |-> rows]
NoFrame == Frame(<< >>, << >>)
NoTemplate == <<"None">>

PipelineIdle ==
    /\ raw = << >>
    /\ ct_cols = NoTemplate
    /\ tus_cols = NoTemplate
    /\ agg = "mean"
    /\ ppc = "off"
    /\ ct_out = NoFrame
    /\ tus_out = NoFrame
    /\ csv = << >>

\* a data frame: its column labels, its index and its rows (label -> value)
EmptyFrame == [columns |-> {}, index |-> << >>, rows |-> << >>]
\* a file of out_dir: absent, left by an earlier run, or written by this run
Absent == [state |-> "absent", content |-> << >>]
Artifacts == {"audit_lineage.csv", "ct_path", "tus_path"}

RunIdle ==
    /\ argv = [raw |-> "ok", ct_template |-> "none", tus_template |-> "none"]
    /\ rawfile = EmptyFrame
    /\ validated = EmptyFrame
    /\ disk = [a \in Artifacts |-> Absent]
    /\ mpc = "off"
    /\ exit_code = -1
    /\ dir = << >>
    /\ inodes = << >>
    /\ wpc = << >>
    /\ wfd = << >>
    /\ woff = << >>
    /\ seen = << >>

\* ------------------------------------------------------------ Init
Init ==
    /\ GuardIdle
    /\ RunIdle
    /\ RegistryIdle
    /\ PipelineIdle
    /\ response = NoResponse
    /\ jobs = << >>
    /\ processing_queue = << >>
    /\ unfinished_tasks = 0
    /\ pc = "get"
    /\ job = None
    /\ original_filename = "unknown"
    /\ exc = ""
    /\ uploading = {}
    /\ outputs \in InitOutputs
    /\ pidfile = MyPid
    /\ shutdowns = 0
    /\ calls = << >>
    /\ enqueued = << >>

\* ------------------------------------------------------------ upload
SavedPath(job_id) == <<"uploads", job_id>>

\* the keyword arguments of upload()'s safe_set_job, lines 884-885
UploadFields_running(job_id, dataset_types, name) ==
    [status |-> "running", uploaded_at |-> "ts",
     uploaded_path |-> SavedPath(job_id),
     dataset_types |-> dataset_types,
     original_filename |-> Stem(name)]
UploadFields(job_id, dataset_types, name) ==
    [status |-> "queued", uploaded_at |-> "ts",
     uploaded_path |-> SavedPath(job_id),
     dataset_types |-> dataset_types,
     original_filename |-> Stem(name)]

\* upload(), lines 838-885: validation, then the job record; job_id is
\* uuid4().hex[:8], taken to be an id no earlier upload drew
UploadRecord ==
    \E name \in FileNames, dataset_types \in DatasetTypeLists :
        LET job_id == Cardinality(DOMAIN jobs) + 1 IN
        /\ allowed_file(name)
        /\ job_id \in JobIds
        /\ safe_set_job(job_id, UploadFields(job_id, dataset_types, name))
        /\ uploading' = uploading \cup {<<job_id, SavedPath(job_id)>>}
        /\ UNCHANGED <<auxVars, response, processing_queue, unfinished_tasks, pc, job,
                       original_filename, exc, outputs, pidfile, shutdowns,
                       calls, enqueued>>

\* upload(), line 886
UploadPut ==
    \E item \in uploading :
        /\ QueuePut(item)
        /\ uploading' = uploading \ {item}
        /\ UNCHANGED <<auxVars, response, jobs, pc, job, original_filename, exc, outputs,
                       pidfile, shutdowns, calls>>

\* ------------------------------------------------------------ shutdown
shutdown_worker ==
    /\ shutdowns < MaxShutdown
    /\ shutdowns' = shutdowns + 1
    /\ QueuePut(None)
    /\ pidfile' = NoPid
    /\ UNCHANGED <<auxVars, response, jobs, pc, job, original_filename, exc, uploading,
                   outputs, calls>>

\* ------------------------------------------------------------ readers
\* the routes that read the registry; the body they send is the snapshot (or
\* the listing), of which the state keeps the HTTP status
Respond(found) == response' = IF found THEN 200 ELSE 404

\* GET /job/<job_id>
job_status ==
    \E j \in JobIds :
        LET info == safe_get_job(j) IN
        /\ Respond(info # << >>)
        /\ UNCHANGED <<auxVars, jobs, processing_queue, unfinished_tasks, pc, job,
                       original_filename, exc, uploading, outputs, pidfile,
                       shutdowns, calls, enqueued>>

\* GET /job-page/<job_id>
job_status_page ==
    \E j \in JobIds :
        LET info == safe_get_job(j) IN
        /\ Respond(info # << >>)
        /\ UNCHANGED <<auxVars, jobs, processing_queue, unfinished_tasks, pc, job,
                       original_filename, exc, uploading, outputs, pidfile,
                       shutdowns, calls, enqueued>>

\* GET /
index ==
    /\ Respond(TRUE)
    /\ UNCHANGED <<auxVars, jobs, processing_queue, unfinished_tasks, pc, job,
                   original_filename, exc, uploading, outputs, pidfile,
                   shutdowns, calls, enqueued>>

\* ------------------------------------------------------------ worker
job_id == job[1]
uploaded_path == job[2]

\* lines 613-619
WorkerGet ==
    /\ pc = "get"
    /\ processing_queue # << >>
    /\ LET item == QueueGetItem(processing_queue) IN
        /\ processing_queue' = QueueGetRest(processing_queue)
        /\ job' = item
        /\ IF item = None
           THEN /\ pc' = "exited"
                /\ UNCHANGED original_filename
           ELSE /\ pc' = "claim"
                /\ original_filename' =
                       DictGet(safe_get_job(item[1]), "original_filename", "unknown")
    /\ UNCHANGED <<auxVars, response, jobs, unfinished_tasks, exc, uploading, outputs, pidfile,
                   shutdowns, calls, enqueued>>

\* line 621
WorkerClaim ==
    /\ pc = "claim"
    /\ safe_set_job(job_id, [status |-> "running", started_at |-> "ts",
                             uploaded_path |-> uploaded_path])
    /\ pc' = "stage1"
    /\ UNCHANGED <<auxVars, response, processing_queue, unfinished_tasks, job, original_filename,
                   exc, uploading, outputs, pidfile, shutdowns, calls, enqueued>>

Call(stage, kind, rc, limit) ==
    [job_id |-> job_id, stage |-> stage, kind |-> kind, rc |-> rc, timeout |-> limit]

TimeoutMsg(limit) ==
    IF limit = Stage1Timeout THEN "timeout: timed out after 3600 seconds"
                             ELSE "timeout: timed out after 300 seconds"

\* what a finished process_data_fintech run leaves in the output folder
Stage1Files(rc) ==
    IF rc = 0
    THEN {AuditLog, ct_output(original_filename, job_id),
          tus_output(original_filename, job_id)}
    ELSE {}

\* generate_dashboard.py is run without arguments: it reads the default files
Stage2CanSucceed == DefaultCT \in outputs \/ DefaultTUS \in outputs
Stage2Files(rc) == IF rc = 0 THEN {Dashboard} ELSE {}

\* lines 636 and 647: the branch on the exit code
Stage1Next_ignored(rc) == "stage2"
Stage1Next(rc) == IF rc # 0 THEN "fail1" ELSE "stage2"
Stage2Next(rc) == IF rc # 0 THEN "fail2" ELSE "collect"

\* lines 626-636: subprocess.run of stage 1, then the record of its result
RunStage1 ==
    /\ pc = "stage1"
    /\ \/ \E rc \in RetCodes, text \in StageTexts :
            /\ calls' = Append(calls, Call(1, "exit", rc, Stage1Timeout))
            /\ outputs' = outputs \cup Stage1Files(rc)
            /\ safe_set_job(job_id, [proc_returncode |-> rc,
                                     proc_stdout |-> Excerpt(text.stdout),
                                     proc_stderr |-> Excerpt(text.stderr)])
            /\ pc' = Stage1Next(rc)
            /\ UNCHANGED exc
       \/ /\ calls' = Append(calls, Call(1, "timeout", NoText, Stage1Timeout))
          /\ exc' = TimeoutMsg(Stage1Timeout)
          /\ pc' = "timeout"
          /\ UNCHANGED <<jobs, outputs>>
       \/ /\ calls' = Append(calls, Call(1, "raise", NoText, Stage1Timeout))
          /\ exc' = "OSError"
          /\ pc' = "except"
          /\ UNCHANGED <<jobs, outputs>>
    /\ UNCHANGED <<auxVars, response, processing_queue, unfinished_tasks, job, original_filename,
                   uploading, pidfile, shutdowns, enqueued>>

\* lines 637 and 648
FailedFields_nostatus(msg) == [finished_at |-> "ts", error |-> msg]
FailedFields(msg) == [status |-> "failed", finished_at |-> "ts", error |-> msg]

Fail1 ==
    /\ pc = "fail1"
    /\ safe_set_job(job_id, FailedFields("process_data_fintech failed"))
    /\ pc' = "task_done1"
    /\ UNCHANGED <<auxVars, response, processing_queue, unfinished_tasks, job, original_filename,
                   exc, uploading, outputs, pidfile, shutdowns, calls, enqueued>>

\* lines 638-639 and 649-650: task_done() inside the try block, then continue;
\* a ValueError raised here is caught by the except Exception clause
TaskDoneInTry ==
    /\ pc \in {"task_done1", "task_done2"}
    /\ IF TaskDoneRaises
       THEN /\ exc' = TooManyMsg
            /\ pc' = "except"
            /\ UNCHANGED unfinished_tasks
       ELSE /\ unfinished_tasks' = unfinished_tasks - 1
            /\ pc' = "finally"
            /\ UNCHANGED exc
    /\ UNCHANGED <<auxVars, response, jobs, processing_queue, job, original_filename, uploading,
                   outputs, pidfile, shutdowns, calls, enqueued>>

\* lines 642-647: subprocess.run of stage 2, then the record of its result
RunStage2 ==
    /\ pc = "stage2"
    /\ \/ \E rc \in RetCodes, text \in StageTexts :
            /\ rc = 0 => Stage2CanSucceed
            /\ calls' = Append(calls, Call(2, "exit", rc, Stage2Timeout))
            /\ outputs' = outputs \cup Stage2Files(rc)
            /\ safe_set_job(job_id, [gen_returncode |-> rc,
                                     gen_stdout |-> Excerpt(text.stdout),
                                     gen_stderr |-> Excerpt(text.stderr)])
            /\ pc' = Stage2Next(rc)
            /\ UNCHANGED exc
       \/ /\ calls' = Append(calls, Call(2, "timeout", NoText, Stage2Timeout))
          /\ exc' = TimeoutMsg(Stage2Timeout)
          /\ pc' = "timeout"
          /\ UNCHANGED <<jobs, outputs>>
       \/ /\ calls' = Append(calls, Call(2, "raise", NoText, Stage2Timeout))
          /\ exc' = "OSError"
          /\ pc' = "except"
          /\ UNCHANGED <<jobs, outputs>>
    /\ UNCHANGED <<auxVars, response, processing_queue, unfinished_tasks, job, original_filename,
                   uploading, pidfile, shutdowns, enqueued>>

Fail2 ==
    /\ pc = "fail2"
    /\ safe_set_job(job_id, FailedFields("generate_dashboard failed"))
    /\ pc' = "task_done2"
    /\ UNCHANGED <<auxVars, response, processing_queue, unfinished_tasks, job, original_filename,
                   exc, uploading, outputs, pidfile, shutdowns, calls, enqueued>>

\* lines 652-710: the files listed on the job record
RECURSIVE SetToSeq(_)
SetToSeq(S) ==
    IF S = {} THEN << >>
    ELSE LET x == CHOOSE y \in S : TRUE IN <<x>> \o SetToSeq(S \ {x})

IsHtml(f) == f[3] = "dashboard.html"

CustomFiles(fs, stem, id) ==
    (IF ct_output(stem, id) \in fs THEN <<ct_output(stem, id)>> ELSE << >>)
    \o (IF tus_output(stem, id) \in fs THEN <<tus_output(stem, id)>> ELSE << >>)
    \o SetToSeq({f \in fs : IsHtml(f) /\ f[2] = id})

FallbackFiles(fs, stem, id) ==
    (IF DefaultCT \in fs THEN <<ct_output(stem, id)>> ELSE << >>)
    \o (IF DefaultTUS \in fs THEN <<tus_output(stem, id)>> ELSE << >>)

OutputFiles(fs, stem, id) ==
    IF CustomFiles(fs, stem, id) # << >> THEN CustomFiles(fs, stem, id)
    ELSE FallbackFiles(fs, stem, id)

Range(seq) == {seq[i] : i \in DOMAIN seq}

\* lines 652-714
CollectAndDone ==
    /\ pc = "collect"
    /\ LET output_files == OutputFiles(outputs, original_filename, job_id) IN
        /\ outputs' = outputs \cup Range(output_files)
        /\ safe_set_job(job_id, [status |-> "done", finished_at |-> "ts",
                                 output_files |-> output_files])
    /\ pc' = "finally"
    /\ UNCHANGED <<auxVars, response, processing_queue, unfinished_tasks, job, original_filename,
                   exc, uploading, pidfile, shutdowns, calls, enqueued>>

\* lines 715-717
ExceptTimeout ==
    /\ pc = "timeout"
    /\ safe_set_job(job_id, FailedFields(exc))
    /\ pc' = "finally"
    /\ UNCHANGED <<auxVars, response, processing_queue, unfinished_tasks, job, original_filename,
                   exc, uploading, outputs, pidfile, shutdowns, calls, enqueued>>

\* lines 718-720
ErrorFields(msg) == [status |-> "error", finished_at |-> "ts", error |-> msg]

ExceptException ==
    /\ pc = "except"
    /\ safe_set_job(job_id, ErrorFields(exc))
    /\ pc' = "finally"
    /\ UNCHANGED <<auxVars, response, processing_queue, unfinished_tasks, job, original_filename,
                   exc, uploading, outputs, pidfile, shutdowns, calls, enqueued>>

\* lines 721-722: task_done() in the finally clause; a ValueError raised here
\* leaves worker_thread and ends the thread
Finally ==
    /\ pc = "finally"
    /\ IF TaskDoneRaises
       THEN /\ pc' = "crashed"
            /\ UNCHANGED unfinished_tasks
       ELSE /\ unfinished_tasks' = unfinished_tasks - 1
            /\ pc' = "get"
    /\ UNCHANGED <<auxVars, response, jobs, processing_queue, job, original_filename, exc,
                   uploading, outputs, pidfile, shutdowns, calls, enqueued>>

worker_thread ==
    \/ WorkerGet \/ WorkerClaim \/ RunStage1 \/ Fail1 \/ TaskDoneInTry
    \/ RunStage2 \/ Fail2 \/ CollectAndDone \/ ExceptTimeout
    \/ ExceptException \/ Finally

Next ==
    \/ UploadRecord
    \/ UploadPut
    \/ shutdown_worker
    \/ WorkerGet
    \/ WorkerClaim
    \/ RunStage1
    \/ Fail1
    \/ TaskDoneInTry
    \/ RunStage2
    \/ Fail2
    \/ CollectAndDone
    \/ ExceptTimeout
    \/ ExceptException
    \/ Finally

Spec == Init /\ [][Next]_vars

\* every stage invocation returns or times out, the worker thread and the
\* request threads are scheduled
FairSpec == Spec /\ WF_vars(worker_thread) /\ WF_vars(UploadPut)

\* the request handlers that touch the registry, and the worker; nothing in
\* web_app.py calls shutdown_worker
HandlerNext ==
    \/ UploadRecord
    \/ UploadPut
    \/ job_status
    \/ job_status_page
    \/ index
    \/ WorkerGet
    \/ WorkerClaim
    \/ RunStage1
    \/ Fail1
    \/ TaskDoneInTry
    \/ RunStage2
    \/ Fail2
    \/ CollectAndDone
    \/ ExceptTimeout
    \/ ExceptException
    \/ Finally

HandlerSpec == Init /\ [][HandlerNext]_vars

\* ============================================================= registry
\* The threads of one process calling safe_set_job, safe_get_job and index().
\* A field whose value is a list holds the address of the list object, as the
\* dict does; heap gives the contents.
ListFields == {"dataset_types", "output_files"}

\* with jobs_lock: blocks until the lock is free
CanAcquire_always == TRUE
CanAcquire == jobs_lock = 0

InLock(t) == tpc[t] # "idle"

\* the keyword arguments of the calls at lines 884, 621 and 713, with the
\* list the caller built at address ref
UploadKwargs(j, ref) == UploadFields(j, ref, "data.csv")
ClaimKwargs(j) ==
    [status |-> "running", started_at |-> "ts", uploaded_path |-> SavedPath(j)]
DoneKwargs(ref) == [status |-> "done", finished_at |-> "ts", output_files |-> ref]

Enter(t, what, args) ==
    /\ tpc[t] = "idle"
    /\ regcalls < MaxRegCalls
    /\ CanAcquire
    /\ jobs_lock' = t
    /\ tpc' = [tpc EXCEPT ![t] = what]
    /\ targ' = [targ EXCEPT ![t] = args]
    /\ regcalls' = regcalls + 1

Exit(t) ==
    /\ jobs_lock' = 0
    /\ tpc' = [tpc EXCEPT ![t] = "idle"]
    /\ targ' = [targ EXCEPT ![t] = NoArgs]

\* safe_set_job, line 475; the caller has built its list, if it passes one
SetEnter(t) ==
    \E j \in JobIds :
        \/ /\ Len(heap) < MaxLists
           /\ \E site \in {"upload", "done"} :
                  LET ref == Len(heap) + 1 IN
                  IF site = "upload"
                  THEN /\ Enter(t, "set", [job_id |-> j, kwargs |-> UploadKwargs(j, ref)])
                       /\ heap' = Append(heap, <<"ct_analysis">>)
                  ELSE /\ Enter(t, "set", [job_id |-> j, kwargs |-> DoneKwargs(ref)])
                       /\ heap' = Append(heap, <<"dashboard.html">>)
           /\ UNCHANGED <<nonRegVars, jobs, snap, jorder, listing>>
        \/ /\ Enter(t, "set", [job_id |-> j, kwargs |-> ClaimKwargs(j)])
           /\ UNCHANGED <<nonRegVars, jobs, heap, snap, jorder, listing>>

\* line 476, and the end of the with block
SetExit(t) ==
    /\ tpc[t] = "set"
    /\ safe_set_job(targ[t].job_id, targ[t].kwargs)
    /\ jorder' = IF targ[t].job_id \in DOMAIN jobs THEN jorder
                 ELSE Append(jorder, targ[t].job_id)
    /\ Exit(t)
    /\ UNCHANGED <<nonRegVars, heap, snap, listing, regcalls>>

\* safe_get_job, line 480
GetEnter(t) ==
    \E j \in JobIds :
        /\ Enter(t, "get", [job_id |-> j, kwargs |-> << >>])
        /\ UNCHANGED <<nonRegVars, jobs, heap, snap, jorder, listing>>

\* line 481: dict.copy() copies the fields, a list field keeps its address
GetExit(t) ==
    /\ tpc[t] = "get"
    /\ snap' = [snap EXCEPT ![t] = [job_id |-> targ[t].job_id,
                                     info |-> safe_get_job(targ[t].job_id)]]
    /\ Exit(t)
    /\ UNCHANGED <<nonRegVars, jobs, heap, jorder, listing, regcalls>>

\* index(), line 805
IndexEnter(t) ==
    /\ Enter(t, "index", NoArgs)
    /\ UNCHANGED <<nonRegVars, jobs, heap, snap, jorder, listing>>

\* sorted(jobs.items(), key=started_at or ""): a stable sort of the insertion
\* order; every started_at of the model is the same text
StartedRank(j) == IF "started_at" \in DOMAIN jobs[j] THEN 1 ELSE 0
SortedKeys ==
    SelectSeq(jorder, LAMBDA j : StartedRank(j) = 0)
        \o SelectSeq(jorder, LAMBDA j : StartedRank(j) = 1)

jobs_list ==
    [i \in DOMAIN SortedKeys |->
        LET k == SortedKeys[i] v == jobs[k] IN
        [job_id |-> k,
         status |-> DictGet(v, "status", "unknown"),
         dataset_types |-> DictGet(v, "dataset_types", 0),
         original_filename |-> DictGet(v, "original_filename", ""),
         output_files |-> DictGet(v, "output_files", 0)]]

\* lines 806-810
IndexExit(t) ==
    /\ tpc[t] = "index"
    /\ listing' = [listing EXCEPT ![t] = jobs_list]
    /\ Exit(t)
    /\ UNCHANGED <<nonRegVars, jobs, heap, snap, jorder, regcalls>>

\* what a caller may do with the dict it was returned: assign a field ...
CallerSetsField(t) ==
    /\ snap[t].info # << >>
    /\ DictGet(snap[t].info, "status", "") # "edited"
    /\ snap' = [snap EXCEPT ![t].info = DictUpdate(@, [status |-> "edited"])]
    /\ UNCHANGED <<nonRegVars, jobs, jobs_lock, tpc, targ, heap, jorder, listing,
                   regcalls>>

\* ... or append to a list it finds in a field
CallerAppends(t) ==
    \E f \in ListFields \cap DOMAIN snap[t].info :
        LET ref == snap[t].info[f] IN
        /\ Len(heap[ref]) < MaxListLen
        /\ heap' = [heap EXCEPT ![ref] = Append(@, "edited")]
        /\ UNCHANGED <<nonRegVars, jobs, jobs_lock, tpc, targ, snap, jorder,
                       listing, regcalls>>

RegistryNext ==
    \/ \E t \in Threads : SetEnter(t)
    \/ \E t \in Threads : SetExit(t)
    \/ \E t \in Threads : GetEnter(t)
    \/ \E t \in Threads : GetExit(t)
    \/ \E t \in Threads : IndexEnter(t)
    \/ \E t \in Threads : IndexExit(t)
    \/ \E t \in Threads : CallerSetsField(t)
    \/ \E t \in Threads : CallerAppends(t)

RegistryInit ==
    /\ WorkerIdle
    /\ GuardIdle
    /\ RunIdle
    /\ PipelineIdle
    /\ RegistryIdle
    /\ pidfile = MyPid

RegistrySpec == RegistryInit /\ [][RegistryNext]_vars

\* ============================================================= pipeline
\* process_data_fintech.py, the stage 1 of the worker: pivot_station and the
\* part of main() that builds and writes the two wide-form frames.

\* a number n/d in lowest terms; NaN (a null Result, a missing cell) is Null
RECURSIVE Gcd(_, _)
Gcd(a, b) == IF b = 0 THEN a ELSE Gcd(b, a % b)
Rat(n, d) == LET g == Gcd(n, d) IN [n |-> n \div g, d |-> d \div g]
Null == [n |-> 0, d |-> 0]

\* the rows a normalized raw table may hold; Date_Time is <<day, hour>>
Stations == {"CT", "TUS"}
DateTimes == {<<1, 9>>, <<1, 17>>, <<2, 9>>}
PCodes == {"P1", "P2"}
Results == {Null, Rat(5, 1), Rat(7, 1)}
RawRows == [Station_ID : Stations, Date_Time : DateTimes, PCode : PCodes,
            Result : Results]
RawTables == UNION {[1..n -> RawRows] : n \in 0..MaxRows}
TemplatePairs == {<<<<"P1", "P3">>, NoTemplate>>, <<NoTemplate, <<"P2">>>>}
AggNames == {"mean", "median", "sum", "first", "max"}

\* ascending order of the days and of the column labels
DayOrder == <<1, 2>>
LabelOrder == <<"P1", "P2", "P3">>

RECURSIVE SumN(_)
SumN(vals) == IF vals = << >> THEN 0 ELSE Head(vals).n + SumN(Tail(vals))

RECURSIVE SortN(_)
SortN(vals) ==
    IF vals = << >> THEN << >>
    ELSE LET x == Head(vals) rest == SortN(Tail(vals)) IN
         SelectSeq(rest, LAMBDA v : v.n < x.n) \o <<x>>
             \o SelectSeq(rest, LAMBDA v : v.n >= x.n)

\* the groupby aggregates of pandas: NaN is skipped; the sum of nothing is 0
Aggregate(aggfunc, vals) ==
    LET nn == SelectSeq(vals, LAMBDA v : v # Null)
        k == Len(nn)
        sorted == SortN(nn) IN
    CASE aggfunc = "sum" -> Rat(SumN(nn), 1)
      [] aggfunc = "mean" -> IF k = 0 THEN Null ELSE Rat(SumN(nn), k)
      [] aggfunc = "first" -> IF k = 0 THEN Null ELSE nn[1]
      [] aggfunc = "median" ->
            IF k = 0 THEN Null
            ELSE IF k % 2 = 1 THEN sorted[(k + 1) \div 2]
            ELSE Rat(sorted[k \div 2].n + sorted[k \div 2 + 1].n, 2)

\* line 62
AggFunc(name) ==
    IF name \in {"mean", "median", "sum", "first"} THEN name ELSE "mean"

\* line 61: .dt.date
DateOf(date_time) == date_time[1]

SubOf(df, station) == SelectSeq(df, LAMBDA r : r.Station_ID = station)
GroupOf(sub, day, code) ==
    SelectSeq(sub, LAMBDA r : DateOf(r.Date_Time) = day /\ r.PCode = code)
ResultsOf(rows) == [i \in DOMAIN rows |-> rows[i].Result]

\* lines 55-69
pivot_station(df, station, template_cols, aggname) ==
    LET sub == SubOf(df, station) IN
    IF sub = << >>
    THEN Frame(<<"Dates">> \o (IF template_cols = NoTemplate \/ template_cols = << >>
                               THEN << >> ELSE template_cols), << >>)
    ELSE LET aggfunc == AggFunc(aggname)
             days == {DateOf(sub[i].Date_Time) : i \in DOMAIN sub}
             codes == {sub[i].PCode : i \in DOMAIN sub}
             Cell(day, code) ==
                 IF GroupOf(sub, day, code) = << >> THEN Null
                 ELSE Aggregate(aggfunc, ResultsOf(GroupOf(sub, day, code)))
             observed == SelectSeq(LabelOrder, LAMBDA c : c \in codes)
             day_index == SelectSeq(DayOrder, LAMBDA d : d \in days)
             cols == IF template_cols # NoTemplate THEN template_cols ELSE observed
             Row(day) ==
                 [c \in {"Station", "Dates"} \cup Range(cols) |->
                     CASE c = "Station" -> station
                       [] c = "Dates" -> day
                       [] OTHER -> Cell(day, c)]
         IN Frame(<<"Station", "Dates">> \o cols,
                  [i \in DOMAIN day_index |-> Row(day_index[i])])

\* df[name] = value: the column is appended, or overwritten where it stands
SetColumn(df, name, value) ==
    IF name \in Range(df.columns)
    THEN Frame(df.columns, [i \in DOMAIN df.rows |-> [df.rows[i] EXCEPT ![name] = value]])
    ELSE Frame(Append(df.columns, name),
               [i \in DOMAIN df.rows |-> (name :> value) @@ df.rows[i]])

Stamp(df) == SetColumn(SetColumn(df, "generated_at", "ts"), "pipeline_version", "0.1.0")

\* lines 87-88
MainPivot ==
    /\ ppc = "start"
    /\ ct_out' = pivot_station(raw, "CT", ct_cols, agg)
    /\ tus_out' = pivot_station(raw, "TUS", tus_cols, agg)
    /\ ppc' = "stamp"
    /\ UNCHANGED <<nonPivotVars, raw, ct_cols, tus_cols, agg, csv>>

\* line 89
MainStamp ==
    /\ ppc = "stamp"
    /\ ct_out' = Stamp(ct_out)
    /\ tus_out' = Stamp(tus_out)
    /\ ppc' = "write"
    /\ UNCHANGED <<nonPivotVars, raw, ct_cols, tus_cols, agg, csv>>

\* lines 90-92
MainWrite ==
    /\ ppc = "write"
    /\ csv' = [ct |-> ct_out, tus |-> tus_out]
    /\ ppc' = "done"
    /\ UNCHANGED <<nonPivotVars, raw, ct_cols, tus_cols, agg, ct_out, tus_out>>

PipelineNext == MainPivot \/ MainStamp \/ MainWrite

PipelineInit ==
    /\ WorkerIdle
    /\ GuardIdle
    /\ RunIdle
    /\ RegistryIdle
    /\ pidfile = MyPid
    /\ raw \in RawTables
    /\ \E pair \in TemplatePairs : ct_cols = pair[1] /\ tus_cols = pair[2]
    /\ agg \in AggNames
    /\ ppc = "start"
    /\ ct_out = NoFrame
    /\ tus_out = NoFrame
    /\ csv = << >>

PipelineSpec == PipelineInit /\ [][PipelineNext]_vars

\* ================================================================ guard
\* The processes of Procs import web_app and share fintech_bg.pid; each has
\* its own in-memory processing_queue.

\* int(text) if text else None, with None for a ValueError (lines 751-754)
ParsePid(text) == IF text \in {NoPid, EmptyText, JunkText} THEN 0 ELSE text

\* os.kill(pid, 0): returns, or raises ProcessLookupError / PermissionError
KillOutcome(pid) ==
    IF pid \in Procs THEN "ok"
    ELSE IF pid = ForeignPid THEN "PermissionError"
    ELSE "ProcessLookupError"

IsLive(pid) == pid \in Procs \/ pid = ForeignPid

\* lines 725-730: every OSError reads as not running
is_pid_running(pid) == KillOutcome(pid) = "ok"

GuardInit ==
    /\ WorkerIdle
    /\ RegistryIdle
    /\ PipelineIdle
    /\ GuardIdle
    /\ RunIdle
    /\ pidfile \in InitPidfiles

RECURSIVE SumOver(_, _)
SumOver(f, S) ==
    IF S = {} THEN 0
    ELSE LET x == CHOOSE y \in S : TRUE IN f[x] + SumOver(f, S \ {x})

\* lines 742-749: entry, and the test pidfile_path.exists()
GuardExists(p) ==
    /\ gpc[p] \in {"off", "ret"}
    /\ SumOver(gcalls, Procs) < MaxGuardCalls
    /\ gcalls' = [gcalls EXCEPT ![p] = @ + 1]
    /\ hist' = [hist EXCEPT ![p] = NoHist]
    /\ existing_pid' = [existing_pid EXCEPT ![p] = 0]
    /\ gpc' = [gpc EXCEPT ![p] = IF pidfile # NoPid THEN "read" ELSE "write"]
    /\ UNCHANGED <<nonGuardVars, pidfile, ret, threads, pending>>

\* lines 750-754: read_text, strip, int; any exception gives None
GuardRead(p) ==
    /\ gpc[p] = "read"
    /\ existing_pid' = [existing_pid EXCEPT ![p] = ParsePid(pidfile)]
    /\ gpc' = [gpc EXCEPT ![p] = "check"]
    /\ UNCHANGED <<nonGuardVars, pidfile, ret, threads, gcalls, hist, pending>>

\* lines 756-759
GuardCheck(p) ==
    /\ gpc[p] = "check"
    /\ hist' = [hist EXCEPT ![p].sawLive = IsLive(existing_pid[p]),
                            ![p].sawStale = ~IsLive(existing_pid[p])]
    /\ IF existing_pid[p] # 0 /\ is_pid_running(existing_pid[p])
       THEN /\ gpc' = [gpc EXCEPT ![p] = "ret"]
            /\ ret' = [ret EXCEPT ![p] = "False"]
       ELSE /\ gpc' = [gpc EXCEPT ![p] = "unlink"]
            /\ UNCHANGED ret
    /\ UNCHANGED <<nonGuardVars, pidfile, existing_pid, threads, gcalls, pending>>

\* line 767: after the unlink, removed or not, comes the write of the pid
AfterUnlink_nowrite == "thread"
AfterUnlink == "write"

\* lines 760-765: unlink of the stale pidfile; a failure is only logged
GuardUnlink(p) ==
    /\ gpc[p] = "unlink"
    /\ \E ok \in BOOLEAN :
         IF ok /\ pidfile # NoPid
         THEN /\ pidfile' = NoPid
              /\ hist' = [hist EXCEPT ![p].unlinked = TRUE]
         ELSE UNCHANGED <<pidfile, hist>>
    /\ gpc' = [gpc EXCEPT ![p] = AfterUnlink]
    /\ UNCHANGED <<nonGuardVars, existing_pid, ret, threads, gcalls, pending>>

\* where the guard goes after write_text, by the way write_text ended
AfterWrite(outcome) == IF outcome = "PermissionError" THEN "ret" ELSE "thread"

\* lines 767-775
GuardWrite(p) ==
    /\ gpc[p] = "write"
    /\ \E outcome \in {"ok", "PermissionError", "OSError"} :
         /\ IF outcome = "ok"
            THEN /\ pidfile' = p
                 /\ hist' = [hist EXCEPT ![p].wrote = TRUE]
            ELSE /\ hist' = [hist EXCEPT ![p].werr = outcome]
                 /\ UNCHANGED pidfile
         /\ gpc' = [gpc EXCEPT ![p] = AfterWrite(outcome)]
         /\ ret' = [ret EXCEPT ![p] = IF AfterWrite(outcome) = "ret" THEN "False" ELSE @]
    /\ UNCHANGED <<nonGuardVars, existing_pid, threads, gcalls, pending>>

\* lines 777-781
GuardStart(p) ==
    /\ gpc[p] = "thread"
    /\ threads' = [threads EXCEPT ![p] = @ + 1]
    /\ hist' = [hist EXCEPT ![p].started = @ + 1]
    /\ ret' = [ret EXCEPT ![p] = "True"]
    /\ gpc' = [gpc EXCEPT ![p] = "ret"]
    /\ UNCHANGED <<nonGuardVars, pidfile, existing_pid, gcalls, pending>>

\* upload() in a process whose import has finished: the job goes on that
\* process's own queue (lines 89 and 886)
ProcUpload(p) ==
    /\ gpc[p] = "ret"
    /\ SumOver([q \in Procs |-> pending[q].queued + pending[q].claimed], Procs) < MaxPending
    /\ pending' = [pending EXCEPT ![p].queued = @ + 1]
    /\ UNCHANGED <<nonGuardVars, pidfile, gpc, existing_pid, ret, threads, gcalls, hist>>

\* a worker thread of the process takes the job and marks it running
\* (lines 613-621)
ProcClaim(p) ==
    /\ threads[p] > 0
    /\ pending[p].queued > 0
    /\ pending' = [pending EXCEPT ![p].queued = @ - 1, ![p].claimed = @ + 1]
    /\ UNCHANGED <<nonGuardVars, pidfile, gpc, existing_pid, ret, threads, gcalls, hist>>

start_background_worker_once_with_pidfile(p) ==
    \/ GuardExists(p) \/ GuardRead(p) \/ GuardCheck(p) \/ GuardUnlink(p)
    \/ GuardWrite(p) \/ GuardStart(p)

GuardNext ==
    \/ \E p \in Procs : GuardExists(p)
    \/ \E p \in Procs : GuardRead(p)
    \/ \E p \in Procs : GuardCheck(p)
    \/ \E p \in Procs : GuardUnlink(p)
    \/ \E p \in Procs : GuardWrite(p)
    \/ \E p \in Procs : GuardStart(p)
    \/ \E p \in Procs : ProcUpload(p)
    \/ \E p \in Procs : ProcClaim(p)

GuardSpec == GuardInit /\ [][GuardNext]_vars

\* a guard call that has begun runs to its return, and a worker thread that
\* exists takes what is on its queue
GuardFairSpec ==
    /\ GuardSpec
    /\ \A p \in Procs : WF_vars(GuardRead(p) \/ GuardCheck(p) \/ GuardUnlink(p)
                                 \/ GuardWrite(p) \/ GuardStart(p))
    /\ \A p \in Procs : WF_vars(ProcClaim(p))

\* ------------------------------------------------------------ shutdown
\* shutdown_worker() in process p (lines 967-975): a None sentinel goes on p's
\* own queue, and fintech_bg.pid is unlinked when it exists, whatever pid it
\* records; a failing unlink is swallowed
ProcShutdown(p) ==
    /\ gpc[p] = "ret"
    /\ shutdowns < MaxShutdown
    /\ shutdowns' = shutdowns + 1
    /\ pending' = [pending EXCEPT ![p].sentinels = @ + 1]
    /\ \E ok \in BOOLEAN :
         pidfile' = IF ok /\ pidfile # NoPid THEN NoPid ELSE pidfile
    /\ UNCHANGED <<jobs, processing_queue, unfinished_tasks, pc, job,
                   original_filename, exc, uploading, outputs, calls, enqueued,
                   response, regVars, pivotVars, runVars, gpc, existing_pid, ret,
                   threads,
                   gcalls, hist>>

\* a worker thread of the process takes the sentinel and breaks out of its
\* loop (lines 613-619); the counts of pending do not keep the order of jobs
\* and sentinels on the queue, so either may be taken first
ProcExit(p) ==
    /\ threads[p] > 0
    /\ pending[p].sentinels > 0
    /\ pending' = [pending EXCEPT ![p].sentinels = @ - 1]
    /\ threads' = [threads EXCEPT ![p] = @ - 1]
    /\ UNCHANGED <<nonGuardVars, pidfile, gpc, existing_pid, ret, gcalls, hist>>

ShutdownInit ==
    /\ WorkerIdle
    /\ RegistryIdle
    /\ PipelineIdle
    /\ GuardIdle
    /\ RunIdle
    /\ pidfile \in {NoPid, DeadPid}

ShutdownNext ==
    \/ GuardNext
    \/ \E p \in Procs : ProcShutdown(p)
    \/ \E p \in Procs : ProcExit(p)

ShutdownSpec == ShutdownInit /\ [][ShutdownNext]_vars

\* ================================================================ stage 1
\* One file on its way through upload() and process_data_fintech.py: the
\* optional preprocess_upload.py run, then main() reading and normalizing the
\* raw table, writing the audit log, reading the templates and writing the
\* two wide-form outputs.  What pivot_station puts into the outputs is the
\* matter of PipelineSpec; here an output is the file and who wrote it.

NaT == << >>
AllCols == {"Station_ID", "Date_Time", "PCode", "Result"}
\* column labels of the raw files: complete, the time column under another
\* name, no time column, no station column, no value column
Headers == {AllCols,
            {"Station_ID", "Timestamp", "PCode", "Result"},
            {"Station_ID", "PCode", "Result"},
            {"Date_Time", "PCode", "Result"},
            {"Station_ID", "Date_Time", "PCode"}}
TimeTexts == {"2025-01-01", "bad"}
ResultTexts == {"5", "$5", "x"}
BaseRows == [Station_ID : {"CT"}, Time : TimeTexts, PCode : {"P1"}, Result : ResultTexts]
BaseTables == UNION {[1..n -> BaseRows] : n \in 0..MaxRows}

RangeIndex(n) == [i \in 1..n |-> i - 1]

\* the frame pd.read_csv makes of a file with these labels and these rows
MkFile(h, rs) ==
    [columns |-> h,
     index |-> RangeIndex(Len(rs)),
     rows |-> [i \in 1..Len(rs) |->
                 [c \in h |-> IF c \in {"Date_Time", "Timestamp"} THEN rs[i].Time
                              ELSE rs[i][c]]]]

RawFiles == {MkFile(h, rs) : h \in Headers, rs \in BaseTables}

\* pd.date_range("2025-01-01", periods=n, freq="H") as to_csv prints it
SyntheticTexts == <<"2025-01-01 00:00:00", "2025-01-01 01:00:00",
                    "2025-01-01 02:00:00", "2025-01-01 03:00:00">>

\* pd.to_datetime(text, errors='coerce'): <<day, hour>>, NaT for no date
to_datetime(text) ==
    IF text = "2025-01-01" THEN <<1, 0>>
    ELSE IF \E h \in DOMAIN SyntheticTexts : SyntheticTexts[h] = text
         THEN <<1, (CHOOSE h \in DOMAIN SyntheticTexts : SyntheticTexts[h] = text) - 1>>
         ELSE NaT

\* to_csv of a datetime column: dates alone when every time is midnight
DatetimeText(column, v) ==
    IF \A i \in DOMAIN column : column[i][2] = 0 THEN "2025-01-01"
    ELSE SyntheticTexts[v[2] + 1]

\* pd.to_numeric(text, errors='coerce')
to_numeric(text) == IF text = "5" THEN Rat(5, 1) ELSE Null

\* df[df["Date_Time"].notna()]: the rows with a timestamp, under their
\* index labels
NotNaRows(df) ==
    LET kept == SelectSeq([i \in 1..Len(df.rows) |-> i],
                          LAMBDA i : df.rows[i]["Date_Time"] # NaT)
    IN  [columns |-> df.columns,
         index |-> [k \in 1..Len(kept) |-> df.index[kept[k]]],
         rows |-> [k \in 1..Len(kept) |-> df.rows[kept[k]]]]

\* df[label] = values
SetFrameColumn(df, label, values) ==
    [columns |-> df.columns \cup {label},
     index |-> df.index,
     rows |-> [i \in 1..Len(df.rows) |->
                 [c \in df.columns \cup {label} |->
                    IF c = label THEN values[i] ELSE df.rows[i][c]]]]

\* preprocess_upload.py lines 25-44
ensure_datetime_column(df) ==
    IF "Date_Time" \in df.columns THEN df
    ELSE LET mapped ==
               IF "Timestamp" \in df.columns
               THEN SetFrameColumn(df, "Date_Time",
                        [i \in 1..Len(df.rows) |-> to_datetime(df.rows[i]["Timestamp"])])
               ELSE SetFrameColumn(df, "Date_Time",
                        [i \in 1..Len(df.rows) |-> <<1, i - 1>>])
         IN  NotNaRows(mapped)

\* preprocess_upload.py lines 54-75 on one text cell
CleanText(text) == IF text = "$5" THEN "5" ELSE text

REQUIRED_COLUMNS == {"Date_Time", "Result", "PCode"}

\* preprocess_upload.py lines 46-52
ensure_required_columns(df) ==
    [columns |-> df.columns \cup REQUIRED_COLUMNS,
     index |-> df.index,
     rows |-> [i \in 1..Len(df.rows) |->
                 [c \in df.columns \cup REQUIRED_COLUMNS |->
                    IF c \in df.columns THEN df.rows[i][c] ELSE "Unknown"]]]

\* preprocess_upload.py lines 77-101: the table of the _cleaned.csv file, as
\* pd.read_csv gives it back.  The cells of the object columns go through
\* clean_numeric_columns, a mapped or synthetic Date_Time column is printed
\* by to_csv, and a frame left without rows loses every column to
\* dropna(axis=1, how="all")
preprocess_file(df) ==
    LET timed == ensure_datetime_column(df)
        full == ensure_required_columns(timed)
        made == "Date_Time" \notin df.columns
        column == [i \in 1..Len(full.rows) |-> full.rows[i]["Date_Time"]]
    IN  IF full.rows = << >> THEN EmptyFrame
        ELSE [columns |-> full.columns,
              index |-> RangeIndex(Len(full.rows)),
              rows |-> [i \in 1..Len(full.rows) |->
                          [c \in full.columns |->
                             IF c = "Date_Time" /\ made
                             THEN DatetimeText(column, full.rows[i][c])
                             ELSE CleanText(full.rows[i][c])]]]

\* process_data_fintech.py lines 37-43, by the kind of path
ReadRaises(path) == path \in {"missing", "unsupported"}

\* lines 47-54: df['Date_Time'] and the other three raise KeyError when the
\* label is not there
NormalizeRaises(df) == ~(AllCols \subseteq df.columns)

normalize(df) ==
    [columns |-> df.columns,
     index |-> df.index,
     rows |-> [i \in 1..Len(df.rows) |->
                 [c \in df.columns |->
                    CASE c = "Date_Time" -> to_datetime(df.rows[i][c])
                      [] c = "Result" -> to_numeric(df.rows[i][c])
                      [] OTHER -> df.rows[i][c]]]]

\* lines 44-46: the digest of the four fields joined by '|', kept as the four
\* fields it is a digest of
compute_row_hash(row) ==
    <<row["Station_ID"], row["Date_Time"], row["PCode"], row["Result"]>>

\* the index value of the audit record of the i-th row (line 75, int(idx))
AuditIndex_position(df, i) == i
AuditIndex(df, i) == df.index[i]

\* lines 72-76, without processed_at
write_audit_log(raw_df) ==
    [i \in 1..Len(raw_df.rows) |->
       [index |-> AuditIndex(raw_df, i),
        station_id |-> raw_df.rows[i]["Station_ID"],
        date_time |-> raw_df.rows[i]["Date_Time"],
        pcode |-> raw_df.rows[i]["PCode"],
        result |-> raw_df.rows[i]["Result"],
        row_hash |-> compute_row_hash(raw_df.rows[i])]]

Left == [state |-> "old", content |-> << >>]
Written(content) == [state |-> "new", content |-> content]

RawPaths == {"ok", "missing", "unsupported"}
TemplateArgs == {<<"none", "none">>, <<"ok", "ok">>, <<"missing", "ok">>,
                 <<"ok", "unsupported">>}

StageInit ==
    /\ WorkerIdle
    /\ GuardIdle
    /\ RegistryIdle
    /\ PipelineIdle
    /\ pidfile = MyPid
    /\ \E raw_path \in RawPaths, templates \in TemplateArgs :
         argv = [raw |-> raw_path, ct_template |-> templates[1],
                 tus_template |-> templates[2]]
    /\ IF argv.raw = "ok" THEN rawfile \in RawFiles ELSE rawfile = EmptyFrame
    /\ validated = EmptyFrame
    /\ \E before \in {Absent, Left} : disk = [a \in Artifacts |-> before]
    /\ mpc = "saved"
    /\ exit_code = -1
    /\ dir = << >>
    /\ inodes = << >>
    /\ wpc = << >>
    /\ wfd = << >>
    /\ woff = << >>
    /\ seen = << >>

\* web_app.py lines 859-871: when preprocess_upload.py is there, exits 0 and
\* its output file exists, the cleaned file takes the place of the upload;
\* otherwise the upload is used as it is
Preprocess ==
    /\ mpc = "saved"
    /\ \E ran \in BOOLEAN :
         rawfile' = IF ran /\ argv.raw = "ok" THEN preprocess_file(rawfile) ELSE rawfile
    /\ mpc' = "start"
    /\ UNCHANGED <<nonStageVars, argv, validated, disk, exit_code>>

\* line 79: an exception of read_any_table or normalize ends the script with
\* exit code 1; a file without columns makes pd.read_csv raise
MainRead ==
    /\ mpc = "start"
    /\ IF ReadRaises(argv.raw) \/ rawfile.columns = {} \/ NormalizeRaises(rawfile)
       THEN /\ mpc' = "exit"
            /\ exit_code' = 1
            /\ UNCHANGED validated
       ELSE /\ validated' = normalize(rawfile)
            /\ mpc' = "audit"
            /\ UNCHANGED exit_code
    /\ UNCHANGED <<nonStageVars, argv, rawfile, disk>>

\* line 82
MainAudit ==
    /\ mpc = "audit"
    /\ disk' = [disk EXCEPT !["audit_lineage.csv"] = Written(write_audit_log(validated))]
    /\ mpc' = "templates"
    /\ UNCHANGED <<nonStageVars, argv, rawfile, validated, exit_code>>

\* lines 83-86
MainTemplates ==
    /\ mpc = "templates"
    /\ IF ReadRaises(argv.ct_template) \/ ReadRaises(argv.tus_template)
       THEN /\ mpc' = "exit"
            /\ exit_code' = 1
       ELSE /\ mpc' = "outputs"
            /\ UNCHANGED exit_code
    /\ UNCHANGED <<nonStageVars, argv, rawfile, validated, disk>>

\* lines 87-92
MainOutputs ==
    /\ mpc = "outputs"
    /\ disk' = [disk EXCEPT !["ct_path"] = Written(<<"CT">>),
                            !["tus_path"] = Written(<<"TUS">>)]
    /\ mpc' = "exit"
    /\ exit_code' = 0
    /\ UNCHANGED <<nonStageVars, argv, rawfile, validated>>

StageNext == Preprocess \/ MainRead \/ MainAudit \/ MainTemplates \/ MainOutputs

StageSpec == StageInit /\ [][StageNext]_vars

\* ================================================================ output file
\* Runs of process_data_fintech.py that were given the same output path, each
\* inside write_csv_secure, and a reader of the final path.  Files are inodes
\* reached through directory entries: an open handle keeps writing to its
\* inode whatever name the inode has by then.

Runs == 1..MaxRuns
Paths == {"final", "tmp"}
\* what run r writes, chunk by chunk, and what an earlier run left
ContentOf(r) == [i \in 1..MaxChunks |-> r]
OldContent == [i \in 1..MaxChunks |-> 0]
NotThere == [exists |-> FALSE, content |-> << >>]

FsInit ==
    /\ WorkerIdle
    /\ GuardIdle
    /\ RegistryIdle
    /\ PipelineIdle
    /\ pidfile = MyPid
    /\ argv = [raw |-> "ok", ct_template |-> "none", tus_template |-> "none"]
    /\ rawfile = EmptyFrame
    /\ validated = EmptyFrame
    /\ disk = [a \in Artifacts |-> Absent]
    /\ mpc = "off"
    /\ exit_code = -1
    /\ inodes = <<OldContent>>
    /\ \E before \in {0, 1} : dir = [p \in Paths |-> IF p = "final" THEN before ELSE 0]
    /\ wpc = [r \in Runs |-> "idle"]
    /\ wfd = [r \in Runs |-> 0]
    /\ woff = [r \in Runs |-> 0]
    /\ seen = NotThere

\* line 71, tmp = p.with_suffix('.tmp') and the open of df.to_csv(tmp): every
\* run derives the same tmp name from the final path; mode 'w' creates the
\* file or truncates the one that is there
WriterOpen(r) ==
    /\ wpc[r] = "idle"
    /\ IF dir["tmp"] = 0
       THEN /\ inodes' = Append(inodes, << >>)
            /\ dir' = [dir EXCEPT !["tmp"] = Len(inodes) + 1]
            /\ wfd' = [wfd EXCEPT ![r] = Len(inodes) + 1]
       ELSE /\ inodes' = [inodes EXCEPT ![dir["tmp"]] = << >>]
            /\ wfd' = [wfd EXCEPT ![r] = dir["tmp"]]
            /\ UNCHANGED dir
    /\ woff' = [woff EXCEPT ![r] = 0]
    /\ wpc' = [wpc EXCEPT ![r] = "write"]
    /\ UNCHANGED <<nonFsVars, seen>>

\* write(2) of one chunk at the handle's offset: bytes there are replaced, a
\* gap before the offset reads as zeros
WriteAt(content, off, chunk) ==
    [i \in 1..(IF Len(content) > off + 1 THEN Len(content) ELSE off + 1) |->
       IF i = off + 1 THEN chunk
       ELSE IF i <= Len(content) THEN content[i] ELSE 0]

\* line 71, df.to_csv(tmp): the chunks go out one write at a time, and the
\* handle is closed after the last
WriterWrite(r) ==
    /\ wpc[r] = "write"
    /\ inodes' = [inodes EXCEPT ![wfd[r]] = WriteAt(@, woff[r], ContentOf(r)[woff[r] + 1])]
    /\ woff' = [woff EXCEPT ![r] = @ + 1]
    /\ wpc' = [wpc EXCEPT ![r] = IF woff[r] + 1 = MaxChunks THEN "replace" ELSE "write"]
    /\ UNCHANGED <<nonFsVars, dir, wfd, seen>>

\* line 71, tmp.replace(p): rename(2), FileNotFoundError when tmp is gone
WriterReplace(r) ==
    /\ wpc[r] = "replace"
    /\ IF dir["tmp"] = 0
       THEN /\ wpc' = [wpc EXCEPT ![r] = "failed"]
            /\ UNCHANGED dir
       ELSE /\ dir' = [dir EXCEPT !["final"] = dir["tmp"], !["tmp"] = 0]
            /\ wpc' = [wpc EXCEPT ![r] = "done"]
    /\ UNCHANGED <<nonFsVars, inodes, wfd, woff, seen>>

\* a reader opens the final path and reads what is there
ReaderReads ==
    /\ seen' = IF dir["final"] = 0 THEN NotThere
               ELSE [exists |-> TRUE, content |-> inodes[dir["final"]]]
    /\ seen' # seen
    /\ UNCHANGED <<nonFsVars, dir, inodes, wpc, wfd, woff>>

FsNext ==
    \/ \E r \in Runs : WriterOpen(r)
    \/ \E r \in Runs : WriterWrite(r)
    \/ \E r \in Runs : WriterReplace(r)
    \/ ReaderReads

FsSpec == FsInit /\ [][FsNext]_vars

\* ================================================================ claims
Known == DOMAIN jobs
CallsOf(cs, j, stage) == {i \in DOMAIN cs : cs[i].job_id = j /\ cs[i].stage = stage}
Invoked(j, stage) == CallsOf(calls, j, stage) # {}
Ended(j, stage, kind) == \E i \in CallsOf(calls, j, stage) : calls[i].kind = kind
ExitedWith(j, stage, rc) ==
    \E i \in CallsOf(calls, j, stage) : calls[i].kind = "exit" /\ calls[i].rc = rc
NonZeroExit(j) == ExitedWith(j, 1, 1) \/ ExitedWith(j, 2, 1)
TimedOut(j) == Ended(j, 1, "timeout") \/ Ended(j, 2, "timeout")
Raised(j) == Ended(j, 1, "raise") \/ Ended(j, 2, "raise")
CrashedOn(j) == pc = "crashed" /\ job_id = j
Handled(j) == Status(j) \in Terminal /\ ~(pc \in {"task_done1", "task_done2", "except", "finally"} /\ job_id = j)

\* position of job j among the items put on the queue, 0 when not put yet
PutIndex(j) ==
    IF \E i \in DOMAIN enqueued : enqueued[i] # None /\ enqueued[i][1] = j
    THEN CHOOSE i \in DOMAIN enqueued : enqueued[i] # None /\ enqueued[i][1] = j
    ELSE 0
SentinelIndexes == {i \in DOMAIN enqueued : enqueued[i] = None}
PutAheadOfSentinel(j) ==
    /\ PutIndex(j) > 0
    /\ \A i \in SentinelIndexes : PutIndex(j) < i

\* C1: a job whose stage 1 or stage 2 returned a non-zero exit code ends
\* failed, and the worker thread does not die while handling it.
C1_NonZeroExitFailsJobWorkerSurvives ==
    \A j \in Known : NonZeroExit(j) =>
        /\ ~CrashedOn(j)
        /\ Handled(j) => Status(j) = "failed"

\* C2: every job recorded as queued and put on the queue ahead of the
\* sentinel eventually has status done, failed or error.
C2_QueuedJobEventuallyTerminal ==
    \A j \in JobIds : PutAheadOfSentinel(j) ~> (Status(j) \in Terminal)

\* C3: a job's status only moves forward: running never goes back to queued,
\* and a terminal status is never changed nor are the job's stages run again.
C3_StatusOnlyMovesForward ==
    [][\A j \in Known :
          /\ Status(j) = "running" => StatusOf(jobs', j) # "queued"
          /\ Status(j) \in Terminal =>
                /\ StatusOf(jobs', j) = Status(j)
                /\ CallsOf(calls', j, 1) = CallsOf(calls, j, 1)
                /\ CallsOf(calls', j, 2) = CallsOf(calls, j, 2)]_vars

\* C4: a job is done only if both stages were invoked for it and both
\* returned 0 (recorded as proc_returncode = 0 and gen_returncode = 0), and
\* stage 2 is invoked for a job only after stage 1 returned 0 for that job.
C4_DoneOnlyAfterBothStagesZero ==
    /\ \A j \in Known : Status(j) = "done" =>
          /\ ExitedWith(j, 1, 0) /\ ExitedWith(j, 2, 0)
          /\ DictGet(jobs[j], "proc_returncode", NoText) = 0
          /\ DictGet(jobs[j], "gen_returncode", NoText) = 0
    /\ \A i \in DOMAIN calls : calls[i].stage = 2 =>
          \E k \in 1..(i - 1) :
              /\ calls[k].job_id = calls[i].job_id
              /\ calls[k].stage = 1 /\ calls[k].kind = "exit" /\ calls[k].rc = 0

C4_Witness ==
    \E j \in Known : Status(j) = "done" /\ \E k \in Known : NonZeroExit(k)

\* C5: status error comes only from an exception other than a stage timeout;
\* a non-zero exit or a timeout always ends failed, an unexpected exception
\* always ends error.
C5_FailedAndErrorAreDistinct ==
    \A j \in Known : Handled(j) =>
        /\ Status(j) = "error" => ~TimedOut(j)
        /\ (NonZeroExit(j) \/ TimedOut(j)) => Status(j) = "failed"
        /\ Raised(j) => Status(j) = "error"

\* C6: when a stage times out the job ends failed with a timeout message, the
\* worker thread stays alive, and the timed-out stage is not invoked again.
C6_TimeoutFailsJobWorkerSurvives ==
    \A j \in Known : TimedOut(j) =>
        /\ ~CrashedOn(j)
        /\ Handled(j) =>
              /\ Status(j) = "failed"
              /\ jobs[j]["error"] \in {TimeoutMsg(Stage1Timeout), TimeoutMsg(Stage2Timeout)}
        /\ \A stage \in {1, 2} : Cardinality(CallsOf(calls, j, stage)) <= 1

StageFields(stage) ==
    IF stage = 1 THEN <<"proc_returncode", "proc_stdout", "proc_stderr">>
                 ELSE <<"gen_returncode", "gen_stdout", "gen_stderr">>
StageRecorded(j, stage) ==
    /\ \A i \in 1..3 : StageFields(stage)[i] \in DOMAIN jobs[j]
    /\ \A i \in 2..3 : jobs[j][StageFields(stage)[i]] \in 0..ExcerptLen
StageUnrecorded(j, stage) ==
    \A i \in 1..3 : StageFields(stage)[i] \notin DOMAIN jobs[j]

\* C7 as stated: a terminal job's record holds the exit code and the
\* stdout/stderr excerpts (at most 20000 characters each) of every stage that
\* was invoked for it, a stage that timed out included.
C7_EveryInvokedStageRecorded ==
    \A j \in Known : Status(j) \in Terminal =>
        \A stage \in {1, 2} : Invoked(j, stage) => StageRecorded(j, stage)

\* C7 amended: a terminal job's record holds the exit code and the excerpts
\* (at most 20000 characters each) of every stage whose invocation returned,
\* with a zero or a non-zero exit code; a stage that timed out or raised
\* leaves no exit code and no excerpt on the record.
C7_EveryReturnedStageRecorded ==
    \A j \in Known : Status(j) \in Terminal =>
        \A stage \in {1, 2} :
            /\ Ended(j, stage, "exit") =>
                  /\ StageRecorded(j, stage)
                  /\ ExitedWith(j, stage, jobs[j][StageFields(stage)[1]])
            /\ (Ended(j, stage, "timeout") \/ Ended(j, stage, "raise")) =>
                  StageUnrecorded(j, stage)

C7_Witness ==
    \E j \in Known :
        /\ Status(j) = "failed"
        /\ ExitedWith(j, 1, 0) /\ jobs[j]["proc_stderr"] = ExcerptLen
        /\ Ended(j, 2, "timeout")

\* C8: at most one job has status running; a job is marked running only
\* after the job claimed before it has a terminal status.
Running == {j \in Known : Status(j) = "running"}
C8_AtMostOneRunning == Cardinality(Running) <= 1

C8_Witness ==
    \E j, k \in Known : Status(j) = "running" /\ Status(k) = "failed" /\ pc = "stage2"

\* C9: jobs are claimed in the order they were put on the queue: a job put
\* later is still queued until every job put before it has a terminal status.
C9_ClaimedInPutOrder ==
    \A a, b \in Known :
        (PutIndex(a) > 0 /\ PutIndex(a) < PutIndex(b) /\ Status(b) # "queued")
            => Status(a) \in Terminal

C9_Witness ==
    /\ PutIndex(2) > 0 /\ PutIndex(2) < PutIndex(1)
    /\ Status(2) \in Terminal /\ Status(1) = "running"

\* C10: once shutdown_worker has put the sentinel, the worker thread
\* eventually leaves its loop through the sentinel, having given every job put
\* before the sentinel a terminal status, and does nothing after that.
CleanExit ==
    /\ pc = "exited"
    /\ \A j \in Known : PutAheadOfSentinel(j) => Status(j) \in Terminal
C10_SentinelEndsWorkerCleanly ==
    /\ (shutdowns > 0) ~> CleanExit
    /\ [][pc = "exited" => pc' = "exited"]_vars

\* ---------------------------------------------------------------- guard claims
\* C11: when the guard finds the pid of a live process in the pidfile (another
\* process, or the caller itself after an earlier call) it returns False,
\* starts no thread and leaves the pidfile as it is; a second call in the
\* process that holds the pidfile thus adds no consumer.
C11_LivePidfileDeclines ==
    [][\A p \in Procs :
          (gpc[p] = "check" /\ gpc'[p] # "check" /\ IsLive(existing_pid[p])) =>
              /\ gpc'[p] = "ret" /\ ret'[p] = "False"
              /\ pidfile' = pidfile
              /\ threads' = threads]_vars

C14_QueuedJobClaimedInItsProcess ==
    \A p \in Procs : (pending[p].queued > 0) ~> (pending[p].queued = 0)

\* C17: only the worker's claim moves a job's status away from queued; a
\* step of upload() adds exactly one record, with status queued and under an
\* id the registry did not hold, and changes no other record; the read routes
\* (job_status, job_status_page, index) leave the registry as it is; every
\* change of the registry is a step of upload() or of the worker.
UploadStep == uploading' # uploading /\ uploading \subseteq uploading'
WorkerStep == pc' # pc
ReadStep == response' # response

Deref(d, h) == [f \in DOMAIN d |-> IF f \in ListFields THEN h[d[f]] ELSE d[f]]
RegistryView(map, h) == [j \in DOMAIN map |-> Deref(map[j], h)]
CallerStep == tpc' = tpc /\ (snap' # snap \/ heap' # heap)
SetStep(t) == tpc[t] = "set" /\ tpc'[t] = "idle"
GetStep(t) == tpc[t] = "get" /\ tpc'[t] = "idle"

\* C15: what safe_get_job returned is isolated from the registry: a caller's
\* change of the returned dict, of a field or of the contents of a list in a
\* field, changes nothing the registry holds, and a safe_set_job changes no
\* dict returned earlier.
C15_SnapshotIsolated ==
    [][/\ CallerStep => RegistryView(jobs', heap') = RegistryView(jobs, heap)
       /\ (\E t \in Threads : SetStep(t)) =>
             \A u \in Threads :
                 Deref(snap'[u].info, heap') = Deref(snap[u].info, heap)]_vars

\* C16: safe_set_job creates the entry of an absent job id and otherwise
\* merges: afterwards the fields passed hold the values passed, the job's
\* other fields and every other job's entry are as before, and no step
\* removes an entry from the registry.
C16_SetMergesAndKeeps ==
    [][/\ DOMAIN jobs \subseteq DOMAIN jobs'
       /\ \A t \in Threads : SetStep(t) =>
             LET j == targ[t].job_id
                 kwargs == targ[t].kwargs
                 before == IF j \in DOMAIN jobs THEN jobs[j] ELSE << >> IN
             /\ DOMAIN jobs' = DOMAIN jobs \cup {j}
             /\ DOMAIN jobs'[j] = DOMAIN kwargs \cup DOMAIN before
             /\ \A f \in DOMAIN kwargs : jobs'[j][f] = kwargs[f]
             /\ \A f \in DOMAIN before \ DOMAIN kwargs : jobs'[j][f] = before[f]
             /\ \A k \in DOMAIN jobs \ {j} : jobs'[k] = jobs[k]
             /\ heap' = heap]_vars

C16_Witness ==
    \E j, k \in DOMAIN jobs :
        /\ j # k
        /\ {"dataset_types", "started_at"} \subseteq DOMAIN jobs[j]
        /\ jobs[j].status = "running"
        /\ jorder = <<j, k>>

\* C18: every write of jobs (safe_set_job) and every read of it (safe_get_job,
\* the listing of index()) is made by the thread holding jobs_lock, and a
\* thread inside one of the with blocks holds the lock, so no two threads
\* are inside at once.
C18_AccessOnlyUnderLock ==
    /\ [](\A t \in Threads : InLock(t) => jobs_lock = t)
    /\ [][/\ jobs' # jobs => jobs_lock \in Threads /\ tpc[jobs_lock] = "set"
          /\ listing' # listing => jobs_lock \in Threads /\ tpc[jobs_lock] = "index"
          /\ \A t \in Threads : GetStep(t) => jobs_lock = t]_vars

C18_Witness ==
    \E t, u \in Threads :
        /\ t # u
        /\ tpc[t] = "set" /\ jobs_lock = t
        /\ tpc[u] = "idle" /\ snap[u].info # << >>
        /\ jobs # << >>
\* C19: for every raw table and every non-null template T, the frame written
\* for a station has exactly the columns Station, Dates, then T, then
\* generated_at, pipeline_version.
ExpectedColumns(T) == <<"Station", "Dates">> \o T \o <<"generated_at", "pipeline_version">>
C19_WrittenColumnsFollowTemplate ==
    ppc = "done" =>
        /\ ct_cols # NoTemplate => csv.ct.columns = ExpectedColumns(ct_cols)
        /\ tus_cols # NoTemplate => csv.tus.columns = ExpectedColumns(tus_cols)

\* C20: for each (day, code) group of the station and each of the aggregation
\* names mean, median, sum, first, the cell holds that aggregate of the
\* group's non-null values (5 and 7 under mean give 6), and null when every
\* value of the group is null.
LeqRat(a, b) == a.n * b.d <= b.n * a.d
IsAggregateOf(cell, aggname, nn) ==
    LET k == Len(nn) IN
    IF k = 0 THEN cell = Null
    ELSE /\ cell # Null
         /\ aggname = "sum" => cell = Rat(SumN(nn), 1)
         /\ aggname = "mean" => cell.n * k = SumN(nn) * cell.d
         /\ aggname = "first" => cell = nn[1]
         /\ aggname = "median" =>
               /\ 2 * Cardinality({i \in 1..k : LeqRat(nn[i], cell)}) >= k
               /\ 2 * Cardinality({i \in 1..k : LeqRat(cell, nn[i])}) >= k
         /\ (aggname = "mean" /\ nn = <<Rat(5, 1), Rat(7, 1)>>) => cell = Rat(6, 1)

CellsAggregate(df, station) ==
    \A i \in DOMAIN df.rows : \A c \in PCodes \cap Range(df.columns) :
        LET group == GroupOf(SubOf(raw, station), df.rows[i]["Dates"], c) IN
        group # << >> =>
            IsAggregateOf(df.rows[i][c], agg,
                          SelectSeq(ResultsOf(group), LAMBDA v : v # Null))

C20_CellIsAggregateOfGroup ==
    (ppc # "start" /\ agg \in {"mean", "median", "sum", "first"}) =>
        CellsAggregate(ct_out, "CT") /\ CellsAggregate(tus_out, "TUS")

\* C27: after a stage 1 that exited 0, stage 2 reads the files this job's
\* stage 1 wrote: when the output folder holds nothing but this job's outputs,
\* stage 2 finds its input (and can exit 0, so the job can reach done).
C27_Stage2FindsThisJobsOutput ==
    (pc = "stage2" /\ outputs \subseteq Stage1Files(0)) => Stage2CanSucceed

\* C28: task_done() is called once for each job dequeued, on every path: it
\* never raises, and unfinished_tasks never drops below the number of jobs
\* still on the queue or in flight.
JobsQueued == Len(SelectSeq(processing_queue, LAMBDA item : item # None))
JobsInFlight == IF pc \in {"get", "exited", "crashed"} THEN 0 ELSE 1
C28_TaskDoneOncePerJob ==
    /\ pc # "crashed"
    /\ exc # TooManyMsg
    /\ unfinished_tasks >= JobsQueued + JobsInFlight
\* C29: a shutdown_worker call in a process leaves the pidfile in place when
\* the pidfile records another process that wrote it and runs the worker.
ShutdownBy(p) == pending'[p].sentinels > pending[p].sentinels
OwnerOtherThan(p) ==
    /\ pidfile \in Procs \ {p}
    /\ hist[pidfile].wrote
    /\ threads[pidfile] > 0
C29_ShutdownKeepsForeignPidfile ==
    [][\A p \in Procs : (ShutdownBy(p) /\ OwnerOtherThan(p)) => pidfile' = pidfile]_vars

\* C21: when the raw table has a timestamp that parses, no record of the
\* frame normalize hands to the audit log and the pivot has a null timestamp.
Normalized == validated.columns # {}
HasTimestamp(row) == row["Date_Time"] # NaT
C21_NoNullTimestamp ==
    (Normalized /\ \E i \in DOMAIN validated.rows : HasTimestamp(validated.rows[i]))
        => \A i \in DOMAIN validated.rows : HasTimestamp(validated.rows[i])

\* C23: the audit log has one record per row of the frame it is given, in the
\* same order, each with the row's index label and fields, and the frame is
\* the same afterwards, up to the pivot.
AuditFile == disk["audit_lineage.csv"]
RecordMatches(record, df, i) ==
    /\ record.index = df.index[i]
    /\ record.station_id = df.rows[i]["Station_ID"]
    /\ record.date_time = df.rows[i]["Date_Time"]
    /\ record.pcode = df.rows[i]["PCode"]
    /\ record.result = df.rows[i]["Result"]
C23_AuditOneRecordPerRow ==
    [][/\ mpc = "audit" =>
            /\ AuditFile'.state = "new"
            /\ Len(AuditFile'.content) = Len(validated.rows)
            /\ \A i \in 1..Len(validated.rows) :
                  RecordMatches(AuditFile'.content[i], validated, i)
       /\ mpc \in {"audit", "templates", "outputs"} => validated' = validated]_vars
\* an audit log of two different rows has been written and the pivot is done
C23_Witness ==
    /\ mpc = "exit"
    /\ exit_code = 0
    /\ Len(AuditFile.content) = 2
    /\ AuditFile.content[1].date_time # AuditFile.content[2].date_time
    /\ AuditFile.content[1].index = 0
    /\ AuditFile.content[2].index = 1

\* C24: when --raw or a template path is missing or of an unsupported type,
\* the script exits non-zero and no artifact of out_dir has been written.
PathError ==
    ReadRaises(argv.raw) \/ ReadRaises(argv.ct_template) \/ ReadRaises(argv.tus_template)
C24_PathErrorWritesNothing ==
    (mpc = "exit" /\ PathError)
        => /\ exit_code # 0
           /\ \A a \in Artifacts : disk[a].state # "new"

\* C25: a raw table that has every column but the station column does not
\* make stage 1 fail.
NoStationColumn == rawfile.columns = AllCols \ {"Station_ID"}
C25_MissingStationDoesNotAbort ==
    (mpc = "exit" /\ ~PathError /\ NoStationColumn) => exit_code = 0

\* C26: a run on a raw table and two templates that all exist exits 0 with
\* the audit log and both wide-form outputs in out_dir.
AllPathsExist ==
    argv = [raw |-> "ok", ct_template |-> "ok", tus_template |-> "ok"]
C26_RunExitsZeroWithOutputs ==
    (mpc = "exit" /\ AllPathsExist)
        => /\ exit_code = 0
           /\ \A a \in Artifacts : disk[a].state # "absent"

\* C22: whatever a reader finds at the final path is the complete content an
\* earlier run left or the complete content of a run that finished its write,
\* with two runs writing the same final path included.
CompleteContents == {OldContent} \cup {ContentOf(r) : r \in {q \in Runs : wpc[q] = "done"}}
C22_ReaderSeesCompleteFile ==
    /\ seen.exists => seen.content \in CompleteContents
    /\ dir["final"] # 0 => inodes[dir["final"]] \in CompleteContents

====
